---- MODULE Spec2Model ----
(***************************************************************************)
(* Model of src/compiletest/json.rs: the conversion of the compiler's JSON *)
(* diagnostics (one object per line) into the flat list of expected-error  *)
(* records.                                                                *)
(*                                                                         *)
(* Strings that the code splits or formats (message, rendered, code,       *)
(* macro_decl_name, msg) are sequences of one-character strings; strings   *)
(* that are only compared (file_name, level) are TLA+ strings.             *)
(* Option<T> is a sequence of length 0 (None) or 1 (Some).                 *)
(***************************************************************************)
EXTENDS Integers, Sequences, FiniteSets, TLC

VARIABLES file_name, output, idx, collected, pc, returned

vars == <<file_name, output, idx, collected, pc, returned>>

(***************************************************************************)
(* Bounds of the explored inputs.                                          *)
(***************************************************************************)
MaxStrLen == 3
MaxSpans == 2
MaxLineNum == 2
MaxDepth == 2
MaxChildren == 2
MaxOutputLines == 3

NL == "\n"
CR == "\r"

FileNames == {"a.rs", "b.rs"}

IsPrefix(s, t) == Len(s) <= Len(t) /\ SubSeq(t, 1, Len(s)) = s

(***************************************************************************)
(* Library functions used by the code.                                     *)
(***************************************************************************)

\* str::lines(): split at "\n", drop the empty piece after a final "\n",
\* strip one trailing "\r" from each piece.
RECURSIVE SplitNL(_, _)
SplitNL(s, cur) ==
    IF s = <<>> THEN <<cur>>
    ELSE IF Head(s) = NL THEN <<cur>> \o SplitNL(Tail(s), <<>>)
    ELSE SplitNL(Tail(s), Append(cur, Head(s)))

StripCR(l) ==
    IF Len(l) > 0 /\ l[Len(l)] = CR THEN SubSeq(l, 1, Len(l) - 1) ELSE l

Lines(s) ==
    LET parts == SplitNL(s, <<>>)
        kept == IF parts[Len(parts)] = <<>>
                THEN SubSeq(parts, 1, Len(parts) - 1)
                ELSE parts
    IN [i \in 1..Len(kept) |-> StripCR(kept[i])]

\* Display of usize by format!("{}").
DigitChars == <<"0", "1", "2", "3", "4", "5", "6", "7", "8", "9">>

RECURSIVE FormatNat(_)
FormatNat(n) ==
    IF n < 10 THEN <<DigitChars[n + 1]>>
    ELSE FormatNat(n \div 10) \o <<DigitChars[(n % 10) + 1]>>

\* ErrorKind::from_str(level).ok()
ErrorKindFromStr(level) ==
    CASE level = "error" -> <<"Error">>
      [] level = "warning" -> <<"Warning">>
      [] level = "note" -> <<"Note">>
      [] level = "help" -> <<"Help">>
      [] level = "suggestion" -> <<"Suggestion">>
      [] OTHER -> <<>>

\* Iterator::min over a non-empty sequence of numbers.
RECURSIVE MinOf(_)
MinOf(s) ==
    IF Len(s) = 1 THEN s[1]
    ELSE LET m == MinOf(Tail(s)) IN IF s[1] <= m THEN s[1] ELSE m

\* A for loop over a sequence, threading the accumulator through the body.
RECURSIVE ForEach(_, _, _)
ForEach(Body(_, _), acc, s) ==
    IF s = <<>> THEN acc ELSE ForEach(Body, Body(acc, Head(s)), Tail(s))

(***************************************************************************)
(* The data of the program.                                                *)
(***************************************************************************)
Error(line_num, kind, msg) ==
    [line_num |-> line_num, kind |-> kind, msg |-> msg]

\* Mutant: the record is put in front.
Push_front(expected_errors, error) == <<error>> \o expected_errors

\* Vec::push
Push(expected_errors, error) == Append(expected_errors, error)

\* The result of a call that may panic: the accumulator after the call, or
\* the panic (the accumulator is then lost).
Ok(errs) == [panicked |-> FALSE, errs |-> errs]
Panic == [panicked |-> TRUE, errs |-> <<>>]

(***************************************************************************)
(* push_backtrace                                                          *)
(***************************************************************************)
RECURSIVE push_backtrace(_, _, _)

\* Mutant: the note is pushed whatever the file of the frame.
push_backtrace_any_file(expected_errors, expansion, target) ==
    ForEach(LAMBDA acc, previous_expansion:
                push_backtrace(acc, previous_expansion, target),
            Push(expected_errors,
                 Error(expansion.span.line_start, <<"Note">>,
                       <<"i", "n", " ", "t", "h", "i", "s", " ",
                         "e", "x", "p", "a", "n", "s", "i", "o", "n",
                         " ", "o", "f", " ">>
                         \o expansion.macro_decl_name)),
            expansion.span.expansion)

\* Mutant: the walk stops at a frame of another file.
push_backtrace_stop(expected_errors, expansion, target) ==
    IF expansion.span.file_name = target
    THEN ForEach(LAMBDA acc, previous_expansion:
                     push_backtrace(acc, previous_expansion, target),
                 Push(expected_errors,
                      Error(expansion.span.line_start, <<"Note">>,
                            <<"i", "n", " ", "t", "h", "i", "s", " ",
                              "e", "x", "p", "a", "n", "s", "i", "o", "n",
                              " ", "o", "f", " ">>
                              \o expansion.macro_decl_name)),
                 expansion.span.expansion)
    ELSE expected_errors

push_backtrace(expected_errors, expansion, target) ==
    LET pushed ==
            IF expansion.span.file_name = target
            THEN Push(expected_errors,
                      Error(expansion.span.line_start, <<"Note">>,
                            <<"i", "n", " ", "t", "h", "i", "s", " ",
                              "e", "x", "p", "a", "n", "s", "i", "o", "n",
                              " ", "o", "f", " ">>
                              \o expansion.macro_decl_name))
            ELSE expected_errors
    IN ForEach(LAMBDA acc, previous_expansion:
                   push_backtrace(acc, previous_expansion, target),
               pushed, expansion.span.expansion)

(***************************************************************************)
(* push_expected_errors                                                    *)
(***************************************************************************)
\* Mutant: the spans are not filtered by file.
matching_spans_all(diagnostic, target) == diagnostic.spans

matching_spans(diagnostic, target) ==
    SelectSeq(diagnostic.spans, LAMBDA span: span.file_name = target)

\* Mutant: the code is left out.
with_code_no_code(diagnostic, span, text) ==
    FormatNat(span.line_start) \o <<":">>
    \o FormatNat(span.column_start) \o <<":", " ">>
    \o FormatNat(span.line_end) \o <<":">>
    \o FormatNat(span.column_end) \o <<":", " ">> \o text

with_code(diagnostic, span, text) ==
    LET location == FormatNat(span.line_start) \o <<":">>
                    \o FormatNat(span.column_start) \o <<":", " ">>
                    \o FormatNat(span.line_end) \o <<":">>
                    \o FormatNat(span.column_end) \o <<":", " ">>
    IN IF diagnostic.code # <<>>
       THEN location \o text \o <<" ", "[">> \o diagnostic.code[1].code
            \o <<"]">>
       ELSE location \o text

\* lines 113-126: the first line of the message, once per matching span
PushFirstLine(expected_errors, diagnostic, target) ==
    LET message_lines == Lines(diagnostic.message)
    IN IF message_lines # <<>>
       THEN ForEach(LAMBDA acc, span:
                        Push(acc, Error(span.line_start,
                                        ErrorKindFromStr(diagnostic.level),
                                        with_code(diagnostic, span,
                                                  Head(message_lines)))),
                    expected_errors, matching_spans(diagnostic, target))
       ELSE expected_errors

\* lines 127-137: the remaining lines of the message
PushNextLines(expected_errors, diagnostic, target) ==
    LET message_lines == Lines(diagnostic.message)
        rest == IF message_lines = <<>> THEN <<>> ELSE Tail(message_lines)
    IN ForEach(LAMBDA acc1, next_line:
                   ForEach(LAMBDA acc2, span:
                               Push(acc2, Error(span.line_start, <<>>,
                                                with_code(diagnostic, span,
                                                          next_line))),
                           acc1, matching_spans(diagnostic, target)),
               expected_errors, rest)

\* Mutant: a suggestion without a matching span is skipped.
PushRendered_soft(expected_errors, diagnostic, target) ==
    IF diagnostic.rendered # <<>> /\ matching_spans(diagnostic, target) # <<>>
    THEN LET starts == [i \in 1..Len(matching_spans(diagnostic, target)) |->
                           matching_spans(diagnostic, target)[i].line_start]
             lines == Lines(diagnostic.rendered[1])
         IN Ok(ForEach(LAMBDA acc, index:
                           Push(acc, Error(MinOf(starts) + index,
                                           <<"Suggestion">>,
                                           lines[index + 1])),
                       expected_errors,
                       [i \in 1..Len(lines) |-> i - 1]))
    ELSE Ok(expected_errors)

\* Mutant: the suggestion is anchored at the first matching span.
PushRendered_first_span(expected_errors, diagnostic, target) ==
    IF diagnostic.rendered # <<>>
    THEN LET starts == [i \in 1..Len(matching_spans(diagnostic, target)) |->
                           matching_spans(diagnostic, target)[i].line_start]
             lines == Lines(diagnostic.rendered[1])
         IN IF starts = <<>>
            THEN Panic
            ELSE Ok(ForEach(LAMBDA acc, index:
                                Push(acc, Error(starts[1] + index,
                                                <<"Suggestion">>,
                                                lines[index + 1])),
                            expected_errors,
                            [i \in 1..Len(lines) |-> i - 1]))
    ELSE Ok(expected_errors)

\* lines 140-152: the suggestion; expect() panics without a matching span
PushRendered(expected_errors, diagnostic, target) ==
    IF diagnostic.rendered # <<>>
    THEN LET starts == [i \in 1..Len(matching_spans(diagnostic, target)) |->
                           matching_spans(diagnostic, target)[i].line_start]
             lines == Lines(diagnostic.rendered[1])
         IN IF starts = <<>>
            THEN Panic
            ELSE Ok(ForEach(LAMBDA acc, index:
                                Push(acc, Error(MinOf(starts) + index,
                                                <<"Suggestion">>,
                                                lines[index + 1])),
                            expected_errors,
                            [i \in 1..Len(lines) |-> i - 1]))
    ELSE Ok(expected_errors)

\* lines 154-161: notes for the backtrace
PushBacktraces(expected_errors, diagnostic, target) ==
    ForEach(LAMBDA acc1, span:
                ForEach(LAMBDA acc2, frame: push_backtrace(acc2, frame, target),
                        acc1, span.expansion),
            expected_errors, matching_spans(diagnostic, target))

RECURSIVE push_expected_errors(_, _, _)

\* Mutant: the children are flattened before the backtrace notes.
push_expected_errors_children_first(expected_errors, diagnostic, target) ==
    LET a1 == PushFirstLine(expected_errors, diagnostic, target)
        a2 == PushNextLines(a1, diagnostic, target)
        r3 == PushRendered(a2, diagnostic, target)
        r4 == IF r3.panicked THEN Panic
              ELSE ForEach(LAMBDA r, child:
                               IF r.panicked THEN Panic
                               ELSE push_expected_errors(r.errs, child, target),
                           r3, diagnostic.children)
    IN IF r4.panicked THEN Panic
       ELSE Ok(PushBacktraces(r4.errs, diagnostic, target))

push_expected_errors(expected_errors, diagnostic, target) ==
    LET a1 == PushFirstLine(expected_errors, diagnostic, target)
        a2 == PushNextLines(a1, diagnostic, target)
        r3 == PushRendered(a2, diagnostic, target)
    IN IF r3.panicked THEN Panic
       ELSE ForEach(LAMBDA r, child:
                        IF r.panicked THEN Panic
                        ELSE push_expected_errors(r.errs, child, target),
                    Ok(PushBacktraces(r3.errs, diagnostic, target)),
                    diagnostic.children)

(***************************************************************************)
(* parse_line and parse_output                                             *)
(***************************************************************************)
\* A line of the output is its leading characters and what json::decode
\* makes of the whole line: <<>> for Err, <<diagnostic>> for Ok.
\* Mutant: blanks before the first character are skipped.
RECURSIVE FirstChar_trimmed(_)
FirstChar_trimmed(line) ==
    IF line.text = <<>> THEN <<>>
    ELSE IF Head(line.text) = " "
         THEN FirstChar_trimmed([line EXCEPT !.text = Tail(line.text)])
         ELSE <<Head(line.text)>>

\* line.chars().next()
FirstChar(line) == IF line.text = <<>> THEN <<>> ELSE <<Head(line.text)>>

json_decode(line) == line.decoded

\* Mutant: a line that does not decode is skipped.
parse_line_skip(target, line) ==
    IF FirstChar(line) = <<"{">> /\ json_decode(line) # <<>>
    THEN push_expected_errors(<<>>, json_decode(line)[1], target)
    ELSE Ok(<<>>)

parse_line(target, line) ==
    IF FirstChar(line) = <<"{">>
    THEN IF json_decode(line) # <<>>
         THEN push_expected_errors(<<>>, json_decode(line)[1], target)
         ELSE Panic
    ELSE Ok(<<>>)

(***************************************************************************)
(* The explored inputs.                                                    *)
(***************************************************************************)
SeqsUpTo(n, S) == UNION {[1..k -> S] : k \in 0..n}

Strings == SeqsUpTo(MaxStrLen, {"a", NL})

MacroNames == <<(<<"m", "!">>), (<<"n", "!">>)>>

\* A span at line l of file f whose expansion chain visits the files of chain.
RECURSIVE MkSpan(_, _, _)
MkSpan(f, l, chain) ==
    [file_name |-> f, line_start |-> l, line_end |-> l + 1,
     column_start |-> 7, column_end |-> 12,
     expansion |->
        IF chain = <<>> THEN <<>>
        ELSE <<[span |-> MkSpan(Head(chain), l + 1, Tail(chain)),
                macro_decl_name |-> MacroNames[(Len(chain) % 2) + 1]]>>]

PlainSpans == {MkSpan(f, l, <<>>) : f \in FileNames, l \in 1..MaxLineNum}

PlainSpanSeqs == SeqsUpTo(MaxSpans, PlainSpans)

Chains == SeqsUpTo(MaxDepth, FileNames)

\* At most two spans with chains: span i is at line 10 * i, its frames on
\* the lines after it.
ChainSpanSeqs ==
    UNION {{[i \in 1..k |-> MkSpan(fs[i], 10 * i, cs[i])] :
               fs \in [1..k -> FileNames], cs \in [1..k -> Chains]} :
           k \in 0..2}

Diags(messages, codes, levels, rendereds, spanseqs, childseqs) ==
    [message : messages, code : codes, level : levels, rendered : rendereds,
     spans : spanseqs, children : childseqs]

NoCode == <<>>
SomeCode == <<[code |-> <<"E", "1">>, explanation |-> <<>>]>>

\* Messages, codes and levels over plain spans.
MessageDiags ==
    Diags(Strings, {NoCode, SomeCode}, {"warning", "bogus"},
          {<<>>}, PlainSpanSeqs, {<<>>})

\* Suggestions over plain spans.
RenderedDiags ==
    Diags({<<"a">>}, {NoCode}, {"error"}, {<<s>> : s \in Strings},
          PlainSpanSeqs, {<<>>})

\* Macro backtraces.
BacktraceDiags ==
    Diags({<<"a">>}, {NoCode}, {"error"}, {<<>>}, ChainSpanSeqs, {<<>>})

\* Trees: leaves, children with at most one leaf below, roots.
LeafSpanSeqs ==
    {<<>>, <<MkSpan("a.rs", 1, <<>>)>>, <<MkSpan("b.rs", 1, <<>>)>>}

GrandChildren ==
    Diags({<<"a">>}, {NoCode}, {"help"}, {<<>>}, {<<MkSpan("a.rs", 1, <<>>)>>},
          {<<>>})
    \cup Diags({<<"a">>}, {NoCode}, {"help"}, {<<(<<"a">>)>>}, {<<>>}, {<<>>})

ChildDiags ==
    Diags({<<"a">>}, {NoCode}, {"note"}, {<<>>}, LeafSpanSeqs,
          SeqsUpTo(1, GrandChildren))
    \cup Diags({<<"a">>}, {NoCode}, {"note"}, {<<(<<"a">>)>>}, LeafSpanSeqs, {<<>>})

RootSpanSeqs ==
    {<<>>,
     <<MkSpan("a.rs", 20, <<"b.rs", "a.rs">>), MkSpan("b.rs", 1, <<"a.rs">>),
       MkSpan("a.rs", 10, <<"a.rs">>)>>}

TreeDiags ==
    Diags({<<"a", NL, "b", NL, "c">>}, {SomeCode}, {"error"},
          {<<>>, <<(<<"x", NL, "y">>)>>},
          RootSpanSeqs, SeqsUpTo(MaxChildren, ChildDiags))

Diagnostics == MessageDiags \cup RenderedDiags \cup BacktraceDiags \cup TreeDiags

\* Lines: a JSON line, a JSON line behind a blank, noise, the empty line.
JsonLine(d) == [text |-> <<"{">>, decoded |-> <<d>>]

SmallDiag ==
    [message |-> <<"a">>, code |-> NoCode, level |-> "error",
     rendered |-> <<>>, spans |-> <<MkSpan("a.rs", 1, <<>>)>>,
     children |-> <<>>]

NoSpanSuggestion ==
    [SmallDiag EXCEPT !.rendered = <<(<<"a">>)>>, !.spans = <<>>]

ScanLines ==
    {JsonLine(SmallDiag),
     JsonLine([SmallDiag EXCEPT !.spans = <<MkSpan("a.rs", 2, <<>>)>>,
                                !.level = "warning"]),
     JsonLine(NoSpanSuggestion),
     [text |-> <<"{">>, decoded |-> <<>>],
     [text |-> <<" ", "{">>, decoded |-> <<SmallDiag>>],
     [text |-> <<"x">>, decoded |-> <<>>],
     [text |-> <<>>, decoded |-> <<>>]}

Outputs ==
    {<<JsonLine(d)>> : d \in Diagnostics} \cup SeqsUpTo(MaxOutputLines, ScanLines)

(***************************************************************************)
(* parse_output as a state machine: one step per line of the output.       *)
(***************************************************************************)
Init ==
    /\ file_name \in FileNames
    /\ output \in Outputs
    /\ idx = 0
    /\ collected = <<>>
    /\ pc = "scan"
    /\ returned = <<>>

\* flat_map: the next line is parsed and its records are appended.
ScanLine ==
    /\ pc = "scan"
    /\ idx < Len(output)
    /\ LET r == parse_line(file_name, output[idx + 1])
       IN /\ ~r.panicked
          /\ collected' = collected \o r.errs
    /\ idx' = idx + 1
    /\ UNCHANGED <<file_name, output, pc, returned>>

\* A panic in parse_line unwinds parse_output: nothing is returned.
ScanLinePanic ==
    /\ pc = "scan"
    /\ idx < Len(output)
    /\ parse_line(file_name, output[idx + 1]).panicked
    /\ pc' = "panicked"
    /\ collected' = <<>>
    /\ UNCHANGED <<file_name, output, idx, returned>>

\* collect(): the lines are exhausted and the vector is returned.
Collect ==
    /\ pc = "scan"
    /\ idx = Len(output)
    /\ pc' = "done"
    /\ returned' = <<collected>>
    /\ UNCHANGED <<file_name, output, idx, collected>>

Next == ScanLine \/ ScanLinePanic \/ Collect

Spec == Init /\ [][Next]_vars

TypeOK ==
    /\ idx \in 0..Len(output)
    /\ pc \in {"scan", "done", "panicked"}
    /\ Len(returned) <= 1

(***************************************************************************)
(* Vocabulary of the properties.  These definitions describe the expected  *)
(* records directly from the Diagnostic tree; they do not use the          *)
(* operators that model the code.                                          *)
(***************************************************************************)
RECURSIVE Concat(_)
Concat(ss) == IF ss = <<>> THEN <<>> ELSE Head(ss) \o Concat(Tail(ss))

RECURSIVE SpansInFile(_, _)
SpansInFile(spans, f) ==
    IF spans = <<>> THEN <<>>
    ELSE (IF Head(spans).file_name = f THEN <<Head(spans)>> ELSE <<>>)
         \o SpansInFile(Tail(spans), f)

\* "{line_start}:{column_start}: {line_end}:{column_end}: {text}"
LocatedText(span, text) ==
    FormatNat(span.line_start) \o <<":">> \o FormatNat(span.column_start)
    \o <<":", " ">> \o FormatNat(span.line_end) \o <<":">>
    \o FormatNat(span.column_end) \o <<":", " ">> \o text

CodeSuffix(d) ==
    IF d.code = <<>> THEN <<>> ELSE <<" ", "[">> \o d.code[1].code \o <<"]">>

\* Record n of the m * k message records: line by line, span by span.
MessageRecords(d, f) ==
    LET ls == Lines(d.message)
        ts == SpansInFile(d.spans, f)
        k == Len(ts)
    IN [n \in 1..(Len(ls) * k) |->
           LET j == ((n - 1) \div k) + 1
               s == ((n - 1) % k) + 1
           IN [line_num |-> ts[s].line_start,
               kind |-> IF j = 1 THEN ErrorKindFromStr(d.level) ELSE <<>>,
               msg |-> LocatedText(ts[s], ls[j]) \o CodeSuffix(d)]]

TargetStarts(d, f) ==
    {SpansInFile(d.spans, f)[i].line_start :
        i \in 1..Len(SpansInFile(d.spans, f))}

Anchor(d, f) ==
    CHOOSE x \in TargetStarts(d, f) : \A y \in TargetStarts(d, f) : x <= y

SuggestionRecords(d, f) ==
    IF d.rendered = <<>> THEN <<>>
    ELSE LET ls == Lines(d.rendered[1])
         IN [i \in 1..Len(ls) |->
                [line_num |-> Anchor(d, f) + (i - 1),
                 kind |-> <<"Suggestion">>,
                 msg |-> ls[i]]]

\* The frames of the expansion chain of a span, outermost first.
RECURSIVE FrameChain(_)
FrameChain(span) ==
    IF span.expansion = <<>> THEN <<>>
    ELSE <<span.expansion[1]>> \o FrameChain(span.expansion[1].span)

RECURSIVE FramesInFile(_, _)
FramesInFile(frames, f) ==
    IF frames = <<>> THEN <<>>
    ELSE (IF Head(frames).span.file_name = f THEN <<Head(frames)>> ELSE <<>>)
         \o FramesInFile(Tail(frames), f)

InThisExpansionOf ==
    <<"i", "n", " ", "t", "h", "i", "s", " ", "e", "x", "p", "a", "n", "s",
      "i", "o", "n", " ", "o", "f", " ">>

SpanNotes(span, f) ==
    LET fs == FramesInFile(FrameChain(span), f)
    IN [i \in 1..Len(fs) |->
           [line_num |-> fs[i].span.line_start,
            kind |-> <<"Note">>,
            msg |-> InThisExpansionOf \o fs[i].macro_decl_name]]

NoteRecords(d, f) ==
    LET ts == SpansInFile(d.spans, f)
    IN Concat([i \in 1..Len(ts) |-> SpanNotes(ts[i], f)])

OwnRecords(d, f) ==
    MessageRecords(d, f) \o SuggestionRecords(d, f) \o NoteRecords(d, f)

RECURSIVE Flat(_, _)
Flat(d, f) ==
    OwnRecords(d, f)
    \o Concat([i \in 1..Len(d.children) |-> Flat(d.children[i], f)])

\* All Diagnostics of a tree.
RECURSIVE Nodes(_)
Nodes(d) == {d} \cup UNION {Nodes(d.children[i]) : i \in 1..Len(d.children)}

\* A suggestion without a span in the target file.
Unanchored(n, f) == n.rendered # <<>> /\ SpansInFile(n.spans, f) = <<>>

Fails(d, f) == \E n \in Nodes(d) : Unanchored(n, f)

\* The lines of the output that start with "{".
StartsWithBrace(line) == line.text # <<>> /\ line.text[1] = "{"

BraceLines == {i \in 1..Len(output) : StartsWithBrace(output[i])}

Decodes(i) == output[i].decoded # <<>>

DiagOf(i) == output[i].decoded[1]

\* The first line was a diagnostic and has been flattened.
FirstFlattened == idx >= 1 /\ StartsWithBrace(output[1]) /\ pc # "panicked"

D1 == DiagOf(1)

NumMessageRecords(d, f) == Len(Lines(d.message)) * Len(SpansInFile(d.spans, f))

NumSuggestionRecords(d) ==
    IF d.rendered = <<>> THEN 0 ELSE Len(Lines(d.rendered[1]))

HasExpansion(d) == \E i \in 1..Len(d.spans) : d.spans[i].expansion # <<>>

Count(s, P(_)) == Cardinality({i \in 1..Len(s) : P(s[i])})

(***************************************************************************)
(* The properties.                                                         *)
(***************************************************************************)

\* C1: the records of one Diagnostic are its first message line per matching
\* span, then each remaining message line per matching span, then the
\* suggestion lines, then the backtrace notes per matching span, then the
\* records of each child in declaration order, every child's records being
\* one contiguous block after the parent's own records and the blocks of
\* the earlier children.
C1_TraversalOrder ==
    (FirstFlattened /\ idx = 1) =>
        /\ collected = Flat(D1, file_name)
        /\ collected =
             OwnRecords(D1, file_name)
             \o Concat([i \in 1..Len(D1.children) |->
                           push_expected_errors(<<>>, D1.children[i],
                                                file_name).errs])

C1_Witness ==
    /\ FirstFlattened /\ idx = 1 /\ pc = "done"
    /\ Len(Lines(D1.message)) >= 2
    /\ Len(SpansInFile(D1.spans, file_name)) >= 2
    /\ SuggestionRecords(D1, file_name) # <<>>
    /\ NoteRecords(D1, file_name) # <<>>
    /\ Len(D1.children) = 2
    /\ \A i \in 1..2 : Flat(D1.children[i], file_name) # <<>>
    /\ Flat(D1.children[1], file_name) # Flat(D1.children[2], file_name)
    /\ \E i \in 1..2 : D1.children[i].children # <<>>

\* C7: a Diagnostic whose message has m lines and which has k matching spans
\* yields exactly m * k message records, line by line and span by span, each
\* at its span's line_start with the located text, the code suffix on every
\* line exactly when there is a code, the kind of the level on the first
\* line and no kind on the later lines; none when m = 0 or k = 0.
C7_MessageRecords ==
    FirstFlattened =>
        LET ls == Lines(D1.message)
            ts == SpansInFile(D1.spans, file_name)
            m == Len(ls)
            k == Len(ts)
        IN /\ Len(collected) >= m * k
           /\ \A j \in 1..m : \A s \in 1..k :
                LET r == collected[(j - 1) * k + s]
                IN /\ r.line_num = ts[s].line_start
                   /\ r.kind = (IF j = 1 THEN ErrorKindFromStr(D1.level)
                                ELSE <<>>)
                   /\ r.msg = LocatedText(ts[s], ls[j])
                              \o (IF D1.code # <<>>
                                  THEN <<" ", "[">> \o D1.code[1].code
                                       \o <<"]">>
                                  ELSE <<>>)
           /\ (idx = 1 /\ D1.rendered = <<>> /\ ~HasExpansion(D1)
               /\ D1.children = <<>>) => Len(collected) = m * k

C7_Witness ==
    /\ FirstFlattened /\ idx = 1 /\ pc = "done"
    /\ Len(Lines(D1.message)) = 2
    /\ Len(SpansInFile(D1.spans, file_name)) = 2
    /\ D1.spans[1].line_start # D1.spans[2].line_start
    /\ D1.code # <<>>
    /\ D1.level = "warning"
    /\ Len(collected) = 4

\* C8: a Diagnostic with rendered present and a matching span yields one
\* record per line of rendered, once in total: line i (from 0) is at
\* start_line + i, start_line the least line_start of the spans of the
\* target file, with kind suggestion and the raw line as msg.
C8_SuggestionRecords ==
    (FirstFlattened /\ D1.rendered # <<>>) =>
        LET ls == Lines(D1.rendered[1])
            starts == TargetStarts(D1, file_name)
            mk == NumMessageRecords(D1, file_name)
        IN /\ starts # {}
           /\ Len(collected) >= mk + Len(ls)
           /\ \A i \in 1..Len(ls) :
                LET r == collected[mk + i]
                IN /\ r.line_num - (i - 1) \in starts
                   /\ \A y \in starts : r.line_num - (i - 1) <= y
                   /\ r.kind = <<"Suggestion">>
                   /\ r.msg = ls[i]
           /\ (idx = 1 /\ D1.children = <<>>) =>
                 Count(collected, LAMBDA r : r.kind = <<"Suggestion">>)
                    = Len(ls)

C8_Witness ==
    /\ FirstFlattened /\ idx = 1 /\ pc = "done"
    /\ D1.rendered # <<>>
    /\ Len(Lines(D1.rendered[1])) = 2
    /\ Len(SpansInFile(D1.spans, file_name)) >= 2
    /\ D1.spans[1].file_name = file_name
    /\ D1.spans[1].line_start > Anchor(D1, file_name)
    /\ \E i \in 1..Len(D1.spans) :
          /\ D1.spans[i].file_name # file_name
          /\ D1.spans[i].line_start < Anchor(D1, file_name)

\* C9: every matching span with an expansion yields one note per frame of its
\* whole chain whose span is in the target file, in chain order from the
\* frame attached to the span; a frame of another file yields nothing and
\* does not stop the walk; the chains of non-matching spans yield nothing.
C9_BacktraceNotes ==
    FirstFlattened =>
        LET ts == SpansInFile(D1.spans, file_name)
            before == NumMessageRecords(D1, file_name)
                      + NumSuggestionRecords(D1)
            notes == Concat([i \in 1..Len(ts) |->
                               FramesInFile(FrameChain(ts[i]), file_name)])
        IN /\ Len(collected) >= before + Len(notes)
           /\ \A i \in 1..Len(notes) :
                collected[before + i] =
                    [line_num |-> notes[i].span.line_start,
                     kind |-> <<"Note">>,
                     msg |-> InThisExpansionOf \o notes[i].macro_decl_name]
           /\ (idx = 1 /\ D1.children = <<>>) =>
                 Len(collected) = before + Len(notes)

C9_Witness ==
    /\ FirstFlattened /\ idx = 1 /\ pc = "done"
    /\ Len(D1.spans) = 2
    /\ D1.spans[1].file_name = file_name
    /\ Len(FrameChain(D1.spans[1])) = 2
    /\ FrameChain(D1.spans[1])[1].span.file_name # file_name
    /\ FrameChain(D1.spans[1])[2].span.file_name = file_name
    /\ D1.spans[2].file_name # file_name
    /\ FramesInFile(FrameChain(D1.spans[2]), file_name) # <<>>
    /\ Count(collected, LAMBDA r : r.kind = <<"Note">>) = 1

\* The records expected of the whole output: those of the lines that start
\* with "{", in line order.
ExpectedOutput ==
    Concat([i \in 1..Len(output) |->
               IF StartsWithBrace(output[i]) /\ Decodes(i)
               THEN Flat(DiagOf(i), file_name)
               ELSE <<>>])

AllBraceLinesDecode == \A i \in BraceLines : Decodes(i)

ReturnsExpectedOutput ==
    /\ pc # "panicked"
    /\ pc = "done" => returned = <<ExpectedOutput>>
    /\ (pc = "done" /\ BraceLines = {}) => returned = <<(<<>>)>>

\* C2 as stated: whenever every line that starts with "{" decodes,
\* parse_output returns the records of those lines in line order, and the
\* other lines contribute nothing.
C2_AsStated == AllBraceLinesDecode => ReturnsExpectedOutput

\* C2: whenever every line that starts with "{" decodes and no Diagnostic of
\* those lines has rendered without a span in the target file, parse_output
\* returns the records of those lines in line order; the other lines (empty,
\* or with "{" after a blank) contribute nothing, and without a line starting
\* with "{" the result is empty.
C2_LineSelection ==
    (AllBraceLinesDecode
     /\ \A i \in BraceLines : ~Fails(DiagOf(i), file_name))
        => ReturnsExpectedOutput

C2_Witness ==
    /\ pc = "done" /\ Len(output) = 3
    /\ StartsWithBrace(output[1]) /\ Flat(DiagOf(1), file_name) # <<>>
    /\ output[2].text = <<" ", "{">> /\ Decodes(2)
    /\ Flat(DiagOf(2), file_name) # <<>>
    /\ StartsWithBrace(output[3]) /\ Flat(DiagOf(3), file_name) # <<>>
    /\ DiagOf(1) # DiagOf(3)
    /\ returned = <<Flat(DiagOf(1), file_name) \o Flat(DiagOf(3), file_name)>>

\* C3: a line that starts with "{" and does not decode is never passed over
\* and parse_output never returns a list, whatever the earlier lines
\* produced and whatever follows.
C3_DecodeFailureIsFatal ==
    \A i \in BraceLines :
        ~Decodes(i) => (idx < i /\ pc # "done" /\ returned = <<>>)

C3_Witness ==
    /\ pc = "panicked" /\ idx = 1 /\ Len(output) = 3
    /\ StartsWithBrace(output[1]) /\ Decodes(1)
    /\ Flat(DiagOf(1), file_name) # <<>>
    /\ StartsWithBrace(output[2]) /\ ~Decodes(2)
    /\ StartsWithBrace(output[3]) /\ Decodes(3)
    /\ returned = <<>>

\* C4: a Diagnostic anywhere in a tree with rendered present and no span in
\* the target file makes the computation fail without a result; in every
\* other case the flattening of a decoded line completes, and a tree without
\* any span in the target file then contributes no record.
C4_UnanchoredSuggestionIsFatal ==
    /\ \A i \in BraceLines :
          (Decodes(i) /\ Fails(DiagOf(i), file_name))
              => (idx < i /\ pc # "done" /\ returned = <<>>)
    /\ pc = "panicked" =>
          /\ StartsWithBrace(output[idx + 1])
          /\ ~Decodes(idx + 1) \/ Fails(DiagOf(idx + 1), file_name)
    /\ (FirstFlattened /\ idx = 1
        /\ \A n \in Nodes(D1) : SpansInFile(n.spans, file_name) = <<>>)
          => collected = <<>>

C4_Witness ==
    /\ pc = "panicked" /\ idx = 0 /\ Len(output) = 1
    /\ StartsWithBrace(output[1]) /\ Decodes(1)
    /\ ~Unanchored(D1, file_name)
    /\ OwnRecords(D1, file_name) # <<>>
    /\ \E i \in 1..Len(D1.children) :
          /\ ~Unanchored(D1.children[i], file_name)
          /\ \E j \in 1..Len(D1.children[i].children) :
                Unanchored(D1.children[i].children[j], file_name)
    /\ returned = <<>>

\* The Diagnostics of all decoded lines, with their nested children.
AllNodes ==
    UNION {Nodes(DiagOf(i)) : i \in {j \in BraceLines : Decodes(j)}}

\* line_start of the spans of the target file: matching spans and the frames
\* of their chains that are in the target file.
SpanOrigins(n, f) ==
    LET ts == SpansInFile(n.spans, f)
    IN {ts[i].line_start : i \in 1..Len(ts)}
       \cup UNION {{SpanNotes(ts[i], f)[j].line_num :
                       j \in 1..Len(SpanNotes(ts[i], f))} : i \in 1..Len(ts)}

\* The lines counted from the least line_start of the matching spans.
SuggestionOrigins(n, f) ==
    IF n.rendered = <<>> \/ TargetStarts(n, f) = {} THEN {}
    ELSE {Anchor(n, f) + j : j \in 0..(Len(Lines(n.rendered[1])) - 1)}

\* C5: the line_num of every returned record comes from a span of the target
\* file: it is the line_start of a matching span or of a frame in the target
\* file on the chain of one, or, for a suggestion, an offset from the least
\* line_start of the matching spans.
C5_LineNumFromTargetSpan ==
    pc = "done" =>
        \A i \in 1..Len(returned[1]) :
            LET r == returned[1][i]
            IN \E n \in AllNodes :
                  \/ r.line_num \in SpanOrigins(n, file_name)
                  \/ /\ r.kind = <<"Suggestion">>
                     /\ r.line_num \in SuggestionOrigins(n, file_name)

C5_Witness ==
    /\ pc = "done" /\ Len(output) = 1 /\ StartsWithBrace(output[1])
    /\ \E i \in 1..Len(D1.spans) : D1.spans[i].file_name # file_name
    /\ \E i \in 1..Len(returned[1]) : returned[1][i].kind = <<"Error">>
    /\ \E i \in 1..Len(returned[1]) : returned[1][i].kind = <<"Note">>
    /\ \E i \in 1..Len(returned[1]) :
          /\ returned[1][i].kind = <<"Suggestion">>
          /\ returned[1][i].line_num \notin TargetStarts(D1, file_name)

\* The tree without what is not in file f: the spans of other files are
\* removed, the frames of other files are cut out of the chains.
RECURSIVE StripChain(_, _)
StripChain(expansion, f) ==
    IF expansion = <<>> THEN <<>>
    ELSE IF expansion[1].span.file_name = f
         THEN <<[expansion[1] EXCEPT !.span.expansion =
                    StripChain(expansion[1].span.expansion, f)]>>
         ELSE StripChain(expansion[1].span.expansion, f)

RECURSIVE StripDiag(_, _)
StripDiag(d, f) ==
    LET ts == SpansInFile(d.spans, f)
    IN [d EXCEPT
          !.spans = [i \in 1..Len(ts) |->
                        [ts[i] EXCEPT !.expansion =
                            StripChain(ts[i].expansion, f)]],
          !.children = [i \in 1..Len(d.children) |->
                           StripDiag(d.children[i], f)]]

OtherFileStarts ==
    UNION {{n.spans[i].line_start :
               i \in {j \in 1..Len(n.spans) :
                         n.spans[j].file_name # file_name}} : n \in AllNodes}

\* C6 as stated: no returned record has as line_num the line_start of a span
\* of another file.
C6_AsStated ==
    pc = "done" =>
        \A i \in 1..Len(returned[1]) :
            returned[1][i].line_num \notin OtherFileStarts

\* C6: no returned record is produced from a span of another file: the
\* result is that of the same output with the spans and frames of other
\* files removed (a record has the line_start of such a span as line_num
\* only when the spans of the target file yield that number).
C6_OtherFilesContributeNothing ==
    pc = "done" =>
        returned[1] =
            Concat([i \in 1..Len(output) |->
                       IF StartsWithBrace(output[i])
                       THEN push_expected_errors(
                                <<>>, StripDiag(DiagOf(i), file_name),
                                file_name).errs
                       ELSE <<>>])

C6_Witness ==
    /\ pc = "done" /\ Len(output) = 1 /\ StartsWithBrace(output[1])
    /\ StripDiag(D1, file_name) # D1
    /\ \E i \in 1..Len(D1.spans) :
          /\ D1.spans[i].file_name = file_name
          /\ \E j \in 1..Len(FrameChain(D1.spans[i])) :
                FrameChain(D1.spans[i])[j].span.file_name # file_name
    /\ \E i \in 1..Len(returned[1]) :
          returned[1][i].line_num \in OtherFileStarts

\* The frames of all chains of a Diagnostic.
FramesOf(n) ==
    UNION {{FrameChain(n.spans[i])[j] : j \in 1..Len(FrameChain(n.spans[i]))} :
           i \in 1..Len(n.spans)}

Accumulators == {SubSeq(collected, 1, j) : j \in 0..Len(collected)}

\* C10: a call of push_expected_errors or push_backtrace, on any Diagnostic
\* or frame of the tree and with any accumulator, leaves the records already
\* in the accumulator in place as a prefix of the accumulator after the call.
C10_AppendOnly ==
    \A acc \in Accumulators : \A n \in AllNodes :
        /\ LET r == push_expected_errors(acc, n, file_name)
           IN ~r.panicked => IsPrefix(acc, r.errs)
        /\ \A frame \in FramesOf(n) :
              IsPrefix(acc, push_backtrace(acc, frame, file_name))

C10_Witness ==
    /\ FirstFlattened /\ idx = 1 /\ Len(collected) >= 2
    /\ D1.children # <<>>
    /\ \E acc \in Accumulators : \E c \in Nodes(D1) \ {D1} :
          /\ acc # <<>>
          /\ Len(push_expected_errors(acc, c, file_name).errs) > Len(acc)
    /\ \E acc \in Accumulators : \E frame \in FramesOf(D1) :
          /\ acc # <<>>
          /\ Len(push_backtrace(acc, frame, file_name)) > Len(acc)
====
